---------------------------- MODULE Spec2Model ----------------------------
(***************************************************************************)
(* A model of crates/moonbuild/src/upgrade.rs: the `moon upgrade` command. *)
(*                                                                         *)
(*   - extract_date and should_upgrade are pure functions; they are        *)
(*     modelled as operators over strings (sequences of one-character      *)
(*     strings) and exercised by SpecExtractDate and SpecShouldUpgrade.    *)
(*   - upgrade and do_upgrade are modelled as a state machine (Spec): the  *)
(*     version check, the confirmation, the concurrent download tasks      *)
(*     raced against Ctrl+C, and the sequential install loop.              *)
(***************************************************************************)
EXTENDS Integers, Sequences, FiniteSets, TLC

VARIABLES
    call,       \* pure-function harness: the function applied and its input
    ret,        \* pure-function harness: the value returned
    done,       \* pure-function harness: TRUE once the function has returned
    stage,      \* where the invocation of upgrade is (Idle, CheckingVersion, ...)
    result,     \* what upgrade returned: Ok(0) or an error, "running" before
    force,      \* cmd.force
    verCheck,   \* outcome of the version check block of upgrade
    sigint,     \* a Ctrl+C has been delivered to the signal::ctrl_c() future
    tpc,        \* per download task: the await it is suspended at
    chunk,      \* per download task: the number it holds across its await
                \* (total_size before the insert, then chunk.len())
    progress,   \* progress_map: item name -> DownloadProgress
    staged,     \* per item: the file in the staging directory
    tempDir,    \* the staging directory: "none", "exists" or "removed"
    stagingDirs,\* sub-directories created under the staging directory
    idx,        \* install loop: index of the item being installed (0: none)
    ipc,        \* install loop: the step the current item is at
    replaceSelf,\* install loop: replace_self of the current file item
    curBin,     \* install loop: cur_bin, the path current_exe() returned
    dest,       \* per item: the state of its destination under the home dir
    log,        \* the install steps executed so far, in order
    mapLock,    \* progress_map's Mutex: 0 when free, else who holds it
    termLock,   \* term's Mutex: 0 when free, else who holds it
    lockpc      \* who is running between two awaits, and at which lock operation

(***************************************************************************)
(* Option<T>: None is the empty tuple, Some(x) the one-element tuple.      *)
(***************************************************************************)
None == <<>>

Some(x) == <<x>>

IsSome(o) == Len(o) = 1

Unwrap(o) == o[1]

(***************************************************************************)
(* Characters and strings.  A string is a sequence of one-character        *)
(* strings; Ord gives the byte value that Rust's str comparison uses.      *)
(***************************************************************************)
DigitChars == <<"0", "1", "2", "3", "4", "5", "6", "7", "8", "9">>

is_ascii_digit(c) == \E k \in 1..10 : DigitChars[k] = c

DigitVal(c) == (CHOOSE k \in 1..10 : DigitChars[k] = c) - 1

Ord(c) ==
    IF is_ascii_digit(c) THEN 48 + DigitVal(c)
    ELSE IF c = " " THEN 32
    ELSE IF c = "(" THEN 40
    ELSE IF c = "+" THEN 43
    ELSE IF c = "-" THEN 45
    ELSE IF c = "." THEN 46
    ELSE IF c = "a" THEN 97
    ELSE IF c = "b" THEN 98
    ELSE 118  \* "v"

Min2(a, b) == IF a <= b THEN a ELSE b

\* a > b on Rust strings: lexicographic on bytes
StrGT(a, b) ==
    \/ \E i \in 1..Min2(Len(a), Len(b)) :
          /\ \A j \in 1..(i - 1) : a[j] = b[j]
          /\ Ord(a[i]) > Ord(b[i])
    \/ /\ Len(a) > Len(b)
       /\ \A j \in 1..Len(b) : a[j] = b[j]

\* str::split('.'): the segments between the dots (always at least one)
RECURSIVE SplitDot(_)
SplitDot(s) ==
    IF \A i \in 1..Len(s) : s[i] # "."
    THEN <<s>>
    ELSE LET d == CHOOSE i \in 1..Len(s) :
                      s[i] = "." /\ \A j \in 1..(i - 1) : s[j] # "."
         IN  <<SubSeq(s, 1, d - 1)>> \o SplitDot(SubSeq(s, d + 1, Len(s)))

\* Iterator::nth(n), zero-based
Nth(seq, n) == IF Len(seq) >= n + 1 THEN Some(seq[n + 1]) ELSE None

\* str::find(|c| c.is_ascii_digit()): offset of the first digit
FindDigit(s) ==
    IF \E i \in 1..Len(s) : is_ascii_digit(s[i])
    THEN Some(CHOOSE i \in 1..Len(s) :
                 is_ascii_digit(s[i]) /\ \A j \in 1..(i - 1) : ~is_ascii_digit(s[j]))
    ELSE None

TakeAll(s, n) == s

\* chars().take(n)
Take(s, n) == SubSeq(s, 1, Min2(n, Len(s)))

(***************************************************************************)
(* normalize_path.  A path is the sequence of its components: "/" is the   *)
(* root directory, "." the current and ".." the parent directory, any      *)
(* other string a normal component.  (No Prefix component: not Windows.)   *)
(***************************************************************************)
PathPopAlways(pth) ==
    IF Len(pth) = 0 THEN pth ELSE SubSeq(pth, 1, Len(pth) - 1)

\* PathBuf::pop: drop the last component, if the path has a parent
PathPop(pth) ==
    IF Len(pth) = 0 THEN pth
    ELSE IF pth = <<"/">> THEN pth
    ELSE SubSeq(pth, 1, Len(pth) - 1)

\* PathBuf::push of one component: an absolute component replaces the path
PathPush(pth, c) == IF c = "/" THEN <<"/">> ELSE Append(pth, c)

\* Path::components of a path given as its separator-delimited segments: a
\* "." segment is yielded only when it is the first one
RECURSIVE components_from(_, _)
components_from(raw, i) ==
    IF i > Len(raw) THEN <<>>
    ELSE (IF raw[i] = "." /\ i > 1 THEN <<>> ELSE <<raw[i]>>)
             \o components_from(raw, i + 1)

path_components(raw) == components_from(raw, 1)

RECURSIVE normalize_loop(_, _, _)
normalize_loop(components, i, acc) ==
    IF i > Len(components) THEN acc
    ELSE LET c == components[i]
         IN  normalize_loop(components, i + 1,
                 IF c = "/" THEN PathPush(acc, c)
                 ELSE IF c = "." THEN acc
                 ELSE IF c = ".." THEN PathPop(acc)
                 ELSE PathPush(acc, c))

normalize_path(pth) == normalize_loop(pth, 1, <<>>)

DateLen == 8

extract_date_short(input) ==
    LET seg == Nth(SplitDot(input), 2)
    IN  IF ~IsSome(seg) THEN None
        ELSE LET s == Unwrap(seg)
                 start == FindDigit(s)
             IN  IF ~IsSome(start) THEN None
                 ELSE LET date == Take(SubSeq(s, Unwrap(start), Len(s)), DateLen)
                      IN  IF \A i \in 1..Len(date) : is_ascii_digit(date[i])
                          THEN Some(date)
                          ELSE None

extract_date(input) ==
    LET seg == Nth(SplitDot(input), 2)
    IN  IF ~IsSome(seg) THEN None
        ELSE LET s == Unwrap(seg)
                 start == FindDigit(s)
             IN  IF ~IsSome(start) THEN None
                 ELSE LET date == Take(SubSeq(s, Unwrap(start), Len(s)), DateLen)
                      IN  IF Len(date) = DateLen
                             /\ \A i \in 1..Len(date) : is_ascii_digit(date[i])
                          THEN Some(date)
                          ELSE None

(***************************************************************************)
(* should_upgrade.  `local` holds what get_moon_version (a String),        *)
(* get_moonrun_version and get_moonc_version (Results, None when Err)      *)
(* return; `items` is latest_version_info.items, a sequence of             *)
(* [name, version].                                                        *)
(***************************************************************************)
\* the body of the `for item in &latest_version_info.items` loop, with the
\* early return of `extract_date(&item.version)?`
RECURSIVE should_upgrade_loop_nomoonc(_, _, _, _, _, _)
should_upgrade_loop_nomoonc(items, i, moon_date, moonrun_date, moonc_date, flag) ==
    IF i > Len(items) THEN Some(flag)
    ELSE LET item == items[i]
             latest == extract_date(item.version)
         IN  IF ~IsSome(latest) THEN None
             ELSE LET latest_date == Unwrap(latest)
                      hit == \/ (item.name = "moon" /\ StrGT(latest_date, moon_date))
                             \/ (item.name = "moonrun" /\ StrGT(latest_date, moonrun_date))
                  IN  should_upgrade_loop_nomoonc(items, i + 1, moon_date, moonrun_date,
                                                  moonc_date, flag \/ hit)

RECURSIVE should_upgrade_loop(_, _, _, _, _, _)
should_upgrade_loop(items, i, moon_date, moonrun_date, moonc_date, flag) ==
    IF i > Len(items) THEN Some(flag)
    ELSE LET item == items[i]
             latest == extract_date(item.version)
         IN  IF ~IsSome(latest) THEN None
             ELSE LET latest_date == Unwrap(latest)
                      hit == \/ (item.name = "moon" /\ StrGT(latest_date, moon_date))
                             \/ (item.name = "moonrun" /\ StrGT(latest_date, moonrun_date))
                             \/ (item.name = "moonc" /\ StrGT(latest_date, moonc_date))
                  IN  should_upgrade_loop(items, i + 1, moon_date, moonrun_date,
                                          moonc_date, flag \/ hit)

should_upgrade(local, items) ==
    IF ~IsSome(local.moonrun) THEN None
    ELSE IF ~IsSome(local.moonc) THEN None
    ELSE LET moon_date == extract_date(local.moon)
             moonrun_date == extract_date(Unwrap(local.moonrun))
             moonc_date == extract_date(Unwrap(local.moonc))
         IN  IF ~IsSome(moon_date) THEN None
             ELSE IF ~IsSome(moonrun_date) THEN None
             ELSE IF ~IsSome(moonc_date) THEN None
             ELSE should_upgrade_loop(items, 1, Unwrap(moon_date), Unwrap(moonrun_date),
                                      Unwrap(moonc_date), FALSE)

(***************************************************************************)
(* upgrade and do_upgrade.                                                 *)
(***************************************************************************)
\* the `items` array of do_upgrade; an item is written as the sequence of its
\* path components ("bin/moon" is <<"bin", "moon">>)
FullItems ==
    << <<"include", "moonbit.h">>, <<"include", "moonbit-fundamental.h">>,
       <<"lib", "libmoonbitrun.o">>, <<"lib", "libtcc1.a">>, <<"bin", "moon">>,
       <<"bin", "moonc">>, <<"bin", "moonfmt">>, <<"bin", "moonrun">>,
       <<"bin", "mooninfo">>, <<"bin", "moondoc">>, <<"bin", "moon_cove_report">>,
       <<"bin", "mooncake">>, <<"bin", "internal", "tcc">>, <<"core.zip">> >>

\* The model runs a sub-manifest of NItems items, kept in manifest order: the
\* items of FullItems whose index is among the first NItems of ItemPriority.
NItems == 3

ItemPriority == <<5, 14, 1, 2, 6, 3, 4, 7, 8, 9, 10, 11, 12, 13>>

KeptIndices == { ItemPriority[k] : k \in 1..Min2(NItems, Len(ItemPriority)) }

RECURSIVE Filter(_, _, _)
Filter(seq, i, keep) ==
    IF i > Len(seq) THEN <<>>
    ELSE (IF i \in keep THEN <<seq[i]>> ELSE <<>>) \o Filter(seq, i + 1, keep)

ItemsReversed ==
    LET kept == Filter(FullItems, 1, KeptIndices)
    IN  [k \in 1..Len(kept) |-> kept[Len(kept) + 1 - k]]

Items == Filter(FullItems, 1, KeptIndices)

N == Len(Items)

Tasks == 1..N

ItemNames == { Items[i] : i \in Tasks }

FileName(item) == item[Len(item)]

\* filepath.extension(): the text after the last dot of the file name
Extension(item) ==
    IF FileName(item) = "core.zip" THEN Some("zip")
    ELSE IF FileName(item) \in {"moonbit.h", "moonbit-fundamental.h"} THEN Some("h")
    ELSE IF FileName(item) = "libmoonbitrun.o" THEN Some("o")
    ELSE IF FileName(item) = "libtcc1.a" THEN Some("a")
    ELSE None

\* filepath.parent(), relative to the directory the item is joined to
\* (<<>> is that directory itself)
ParentDir(item) == SubSeq(item, 1, Len(item) - 1)

\* the directories create_dir_all(parent) leaves in place
CreatedDirs(item) == { SubSeq(item, 1, k) : k \in 1..(Len(item) - 1) }

\* bounds of the download: bytes one transfer delivers, longest chunk
MaxBytes == 2

MaxChunkLen == 2

\* values of response.content_length() when the header is present
ContentLengths == {MaxBytes}

NoFile == [exists |-> FALSE, size |-> 0]

OrigDest == [state |-> "orig", size |-> 0]

Running == [status |-> "running", error |-> "none", item |-> 0]

Ok0 == [status |-> "ok", error |-> "none", item |-> 0]

Err(kind, i) == [status |-> "err", error |-> kind, item |-> i]

EmptyMap == [k \in {} |-> 0]

\* IndexMap::insert
MapInsert(map, key, value) ==
    [k \in (DOMAIN map) \cup {key} |-> IF k = key THEN value ELSE map[k]]

RegisterNone(map, i) == map

\* lines 255-264: every item is registered with zero progress
RECURSIVE RegisterAll(_, _)
RegisterAll(map, i) ==
    IF i > N THEN map
    ELSE RegisterAll(MapInsert(map, Items[i], [total_size |-> 0, downloaded |-> 0]), i + 1)

\* lines 300-305: `if let Some(progress) = map.get_mut(..) { downloaded += len }`
AdvanceOverwrite(map, key, len) ==
    IF key \in DOMAIN map
    THEN [map EXCEPT ![key].downloaded = len]
    ELSE map

Advance(map, key, len) ==
    IF key \in DOMAIN map
    THEN [map EXCEPT ![key].downloaded = @ + len]
    ELSE map

pvars == <<call, ret, done>>

\* lines 422-431 of display_progress: the sums over the map and the percentage
\* (the division is f64: NaN when total is 0, which is only printed)
RECURSIVE MapSum(_, _, _)
MapSum(map, keys, field) ==
    IF keys = {} THEN 0
    ELSE LET k == CHOOSE x \in keys : TRUE
         IN  (IF field = "downloaded" THEN map[k].downloaded ELSE map[k].total_size)
             + MapSum(map, keys \ {k}, field)

ProgressCur(map) == MapSum(map, DOMAIN map, "downloaded")

ProgressTotal(map) == MapSum(map, DOMAIN map, "total_size")

mvars == <<stage, result, force, verCheck, sigint, tpc, chunk, progress, staged,
           tempDir, stagingDirs, idx, ipc, replaceSelf, curBin, dest, log,
           mapLock, termLock, lockpc>>

vars == <<call, ret, done, stage, result, force, verCheck, sigint, tpc, chunk,
          progress, staged, tempDir, stagingDirs, idx, ipc, replaceSelf, curBin, dest, log,
          mapLock, termLock, lockpc>>

dlvars == <<tpc, chunk, progress, staged, tempDir, stagingDirs>>

instvars == <<idx, ipc, replaceSelf, curBin, dest, log>>

lvars == <<mapLock, termLock, lockpc>>

\* nothing of the async block is running: every future is suspended or not started
NotRunning == [who |-> 0, at |-> "idle"]

\* the state before upgrade is called with a given force flag
MainInit(f) ==
    /\ stage = "Idle"
    /\ result = Running
    /\ force = f
    /\ verCheck = "unset"
    /\ sigint = FALSE
    /\ tpc = [i \in Tasks |-> "init"]
    /\ chunk = [i \in Tasks |-> 0]
    /\ progress = EmptyMap
    /\ staged = [i \in Tasks |-> NoFile]
    /\ tempDir = "none"
    /\ stagingDirs = {}
    /\ idx = 0
    /\ ipc = "none"
    /\ replaceSelf = FALSE
    /\ curBin = <<>>
    /\ dest = [i \in Tasks |-> OrigDest]
    /\ log = <<>>
    /\ mapLock = 0
    /\ termLock = 0
    /\ lockpc = NotRunning

NoCall ==
    /\ call = [fn |-> "none"]
    /\ ret = None
    /\ done = FALSE

Init ==
    /\ NoCall
    /\ \E f \in BOOLEAN : MainInit(f)

\* lines 170-184: the Ctrl+C handler is installed and the root is probed
UpgradeStart ==
    /\ stage = "Idle"
    /\ \/ /\ stage' = "CheckingVersion"
          /\ UNCHANGED result
       \/ /\ stage' = "Failed"           \* set_handler(..)? or check_connectivity()?
          /\ result' = Err("setup", 0)
    /\ UNCHANGED <<force, verCheck, sigint>>
    /\ UNCHANGED dlvars
    /\ UNCHANGED instvars
    /\ UNCHANGED pvars
    /\ UNCHANGED lvars

\* the 8 characters of a YYYYMMDD number
DateString(n) ==
    [i \in 1..DateLen |-> DigitChars[((n \div (10 ^ (DateLen - i))) % 10) + 1]]

PlainVersion(n) == <<"0", ".", "1", ".">> \o DateString(n)

TaggedVersion(n) == <<"v", "0", ".", "1", ".">> \o DateString(n) \o <<"+", "a", "b">>

NoDateVersion == <<"0", ".", "1">>

\* what the version check block of upgrade can be given: the installed
\* versions and the items of version.json
CheckLocals ==
    [moon : { PlainVersion(20240101) },
     moonrun : { None, Some(PlainVersion(20240101)) },
     moonc : { Some(TaggedVersion(20240102)), Some(NoDateVersion) }]

CheckRemotes ==
    { <<>> } \cup
    { <<[name |-> n, version |-> v]>> :
        n \in {"moon", "moonc"},
        v \in { PlainVersion(20240102), TaggedVersion(20240101), NoDateVersion } }

\* lines 186-196
VersionCheckOutcome(fetched, local, items) ==
    IF fetched = "fetch_failed" THEN "fetch_failed"
    ELSE IF fetched = "parse_failed" THEN "parse_failed"
    ELSE LET r == should_upgrade(local, items)
         IN  IF r = Some(FALSE) THEN "some_false"
             ELSE IF r = Some(TRUE) THEN "some_true"
             ELSE "none"

CheckVersionIgnoringForce ==
    /\ stage = "CheckingVersion"
    /\ \E fetched \in {"fetch_failed", "parse_failed", "ok"} :
       \E local \in CheckLocals :
       \E items \in CheckRemotes :
          LET out == VersionCheckOutcome(fetched, local, items)
          IN  /\ verCheck' = out
              /\ IF out = "some_false"
                 THEN stage' = "UpToDate" /\ result' = Ok0
                 ELSE stage' = "ConfirmPending" /\ UNCHANGED result
    /\ UNCHANGED <<force, sigint>>
    /\ UNCHANGED dlvars
    /\ UNCHANGED instvars
    /\ UNCHANGED pvars
    /\ UNCHANGED lvars

CheckVersion ==
    /\ stage = "CheckingVersion"
    /\ \/ /\ force
          /\ verCheck' = "skipped"
          /\ stage' = "ConfirmPending"
          /\ UNCHANGED result
       \/ /\ ~force
          /\ \E fetched \in {"fetch_failed", "parse_failed", "ok"} :
             \E local \in CheckLocals :
             \E items \in CheckRemotes :
                LET out == VersionCheckOutcome(fetched, local, items)
                IN  /\ verCheck' = out
                    /\ IF out = "some_false"
                       THEN stage' = "UpToDate" /\ result' = Ok0
                       ELSE stage' = "ConfirmPending" /\ UNCHANGED result
    /\ UNCHANGED <<force, sigint>>
    /\ UNCHANGED dlvars
    /\ UNCHANGED instvars
    /\ UNCHANGED pvars
    /\ UNCHANGED lvars

\* lines 204-213 and 219-264: the prompt and, on "yes", the setup of do_upgrade
Confirm ==
    /\ stage = "ConfirmPending"
    /\ \/ /\ stage' = "Failed"           \* interact()?
          /\ result' = Err("setup", 0)
          /\ UNCHANGED <<progress, tempDir>>
       \/ /\ stage' = "Declined"         \* confirm = false
          /\ result' = Ok0
          /\ UNCHANGED <<progress, tempDir>>
       \/ /\ stage' = "Failed"           \* Runtime::new()?, moon_tmp_dir()?, tempdir_in(..)?
          /\ result' = Err("setup", 0)
          /\ UNCHANGED <<progress, tempDir>>
       \/ /\ stage' = "Downloading"
          /\ tempDir' = "exists"
          /\ progress' = RegisterAll(EmptyMap, 1)
          /\ UNCHANGED result
    /\ verCheck' = IF force THEN verCheck ELSE "dropped"
    /\ UNCHANGED <<force, sigint, tpc, chunk, staged, stagingDirs>>
    /\ UNCHANGED instvars
    /\ UNCHANGED pvars
    /\ UNCHANGED lvars


(***************************************************************************)
(* The download batch (lines 266-316) raced against Ctrl+C (319-328).      *)
(* All task futures are polled by the one future `downloads`; a task runs  *)
(* from one await to the next without interleaving, so each action below   *)
(* is the code between two awaits of one task.                             *)
(***************************************************************************)
\* the log with one more step, or two more steps, of item i
Logged(i, op) == Append(log, [item |-> i, op |-> op])

Logged2(i, op1, op2) == Append(Append(log, [item |-> i, op |-> op1]), [item |-> i, op |-> op2])

\* dropping `downloads` drops every task future that has not completed
DropTasksNone(pcs) == pcs

DropTasks(pcs) == [i \in Tasks |-> IF pcs[i] = "done" THEN "done" ELSE "dropped"]

DropTempDirLeaking(d) == d

\* TempDir::drop, as temp_dir goes out of scope: the directory is removed
DropTempDir(d) == "removed"

\* the async block returns with an error: the task futures and temp_dir are dropped
AbortDownload(kind, i) ==
    /\ result' = Err(kind, i)
    /\ tpc' = DropTasks(tpc)
    /\ chunk' = [j \in Tasks |-> 0]
    /\ staged' = [j \in Tasks |-> NoFile]
    /\ tempDir' = DropTempDir(tempDir)
    /\ stagingDirs' = {}
    /\ UNCHANGED <<progress, force, verCheck, sigint>>
    /\ UNCHANGED instvars
    /\ UNCHANGED pvars
    /\ UNCHANGED lvars

\* lines 270-275: first poll of a task, up to create_dir_all(..).await or get(..).await
TaskBegin(i) ==
    /\ stage = "Downloading"
    /\ tpc[i] = "init"
    /\ tpc' = [tpc EXCEPT ![i] =
                 IF ParentDir(Items[i]) # <<>> /\ ParentDir(Items[i]) \notin stagingDirs
                 THEN "mkdir" ELSE "get"]
    /\ UNCHANGED <<stage, result, force, verCheck, sigint, chunk, progress, staged,
                   tempDir, stagingDirs>>
    /\ UNCHANGED instvars
    /\ UNCHANGED pvars
    /\ UNCHANGED lvars

\* line 273: create_dir_all(parent) succeeded
TaskMkdir(i) ==
    /\ stage = "Downloading"
    /\ tpc[i] = "mkdir"
    /\ stagingDirs' = stagingDirs \cup CreatedDirs(Items[i])
    /\ tpc' = [tpc EXCEPT ![i] = "get"]
    /\ UNCHANGED <<stage, result, force, verCheck, sigint, chunk, progress, staged, tempDir>>
    /\ UNCHANGED instvars
    /\ UNCHANGED pvars
    /\ UNCHANGED lvars

\* lines 276-280: the response arrived with a content length
TaskGet(i) ==
    /\ stage = "Downloading"
    /\ tpc[i] = "get"
    /\ \E total \in ContentLengths :
          /\ chunk' = [chunk EXCEPT ![i] = total]   \* total_size, held until the insert
          /\ tpc' = [tpc EXCEPT ![i] = "create"]
    /\ UNCHANGED <<stage, result, force, verCheck, sigint, progress, staged, tempDir,
                   stagingDirs>>
    /\ UNCHANGED instvars
    /\ UNCHANGED pvars
    /\ UNCHANGED lvars

\* lines 278-293: the staging file is created, then the entry is re-inserted
\* with the total size
TaskCreate(i) ==
    /\ stage = "Downloading"
    /\ tpc[i] = "create"
    /\ staged' = [staged EXCEPT ![i] = [exists |-> TRUE, size |-> 0]]
    /\ progress' = MapInsert(progress, Items[i],
                             [total_size |-> chunk[i], downloaded |-> 0])
    /\ chunk' = [chunk EXCEPT ![i] = 0]
    /\ tpc' = [tpc EXCEPT ![i] = "next"]
    /\ UNCHANGED <<stage, result, force, verCheck, sigint, tempDir, stagingDirs>>
    /\ UNCHANGED instvars
    /\ UNCHANGED pvars
    /\ UNCHANGED lvars

\* lines 294-296: stream.next() yielded a chunk; write_all is awaited
TaskNextChunk(i) ==
    /\ stage = "Downloading"
    /\ tpc[i] = "next"
    /\ \E len \in 1..MaxChunkLen :
          /\ staged[i].size + len <= MaxBytes
          /\ chunk' = [chunk EXCEPT ![i] = len]
    /\ tpc' = [tpc EXCEPT ![i] = "write"]
    /\ UNCHANGED <<stage, result, force, verCheck, sigint, progress, staged, tempDir,
                   stagingDirs>>
    /\ UNCHANGED instvars
    /\ UNCHANGED pvars
    /\ UNCHANGED lvars

\* lines 294, 309: stream.next() yielded None; flush is awaited
TaskNextEnd(i) ==
    /\ stage = "Downloading"
    /\ tpc[i] = "next"
    /\ tpc' = [tpc EXCEPT ![i] = "flush"]
    /\ UNCHANGED <<stage, result, force, verCheck, sigint, chunk, progress, staged,
                   tempDir, stagingDirs>>
    /\ UNCHANGED instvars
    /\ UNCHANGED pvars
    /\ UNCHANGED lvars

\* lines 296-306: the chunk is in the file; the progress entry is advanced
\* and the percentage is displayed
TaskWrite(i) ==
    /\ stage = "Downloading"
    /\ tpc[i] = "write"
    /\ staged' = [staged EXCEPT ![i].size = @ + chunk[i]]
    /\ progress' = Advance(progress, Items[i], chunk[i])
    /\ chunk' = [chunk EXCEPT ![i] = 0]
    /\ tpc' = [tpc EXCEPT ![i] = "next"]
    /\ UNCHANGED <<stage, result, force, verCheck, sigint, tempDir, stagingDirs>>
    /\ UNCHANGED instvars
    /\ UNCHANGED pvars
    /\ UNCHANGED lvars

TaskFlushEager(i) ==
    /\ stage = "Downloading"
    /\ tpc[i] = "flush"
    /\ tpc' = [tpc EXCEPT ![i] = "done"]
    /\ stage' = "Installing"
    /\ idx' = 1
    /\ ipc' = "begin"
    /\ UNCHANGED <<result, force, verCheck, sigint, chunk, progress, staged, tempDir,
                   stagingDirs, replaceSelf, curBin, dest, log>>
    /\ UNCHANGED pvars
    /\ UNCHANGED lvars

\* lines 309-310, 326-332: the task returns Ok(()); when it is the last one,
\* `downloads` is ready with Ok(()) in the same poll and the install loop starts
TaskFlush(i) ==
    /\ stage = "Downloading"
    /\ tpc[i] = "flush"
    /\ tpc' = [tpc EXCEPT ![i] = "done"]
    /\ IF \A j \in Tasks \ {i} : tpc[j] = "done"
       THEN /\ stage' = "Installing"
            /\ idx' = 1
            /\ ipc' = "begin"
       ELSE UNCHANGED <<stage, idx, ipc>>
    /\ UNCHANGED <<result, force, verCheck, sigint, chunk, progress, staged, tempDir,
                   stagingDirs, replaceSelf, curBin, dest, log>>
    /\ UNCHANGED pvars
    /\ UNCHANGED lvars

TaskFailRetrying(i) ==
    /\ stage = "Downloading"
    /\ tpc[i] \in {"mkdir", "get", "create", "next", "write", "flush"}
    /\ tpc' = [tpc EXCEPT ![i] = "init"]
    /\ chunk' = [chunk EXCEPT ![i] = 0]
    /\ staged' = [staged EXCEPT ![i] = NoFile]
    /\ progress' = MapInsert(progress, Items[i], [total_size |-> 0, downloaded |-> 0])
    /\ UNCHANGED <<stage, result, force, verCheck, sigint, tempDir, stagingDirs>>
    /\ UNCHANGED instvars
    /\ UNCHANGED pvars
    /\ UNCHANGED lvars

\* an await of the task returned Err, or (line 277) the response had no content
\* length: the task returns the error, try_for_each_concurrent returns it in the
\* same poll, and `result?` (line 327) returns it from do_upgrade
TaskFail(i) ==
    /\ stage = "Downloading"
    /\ tpc[i] \in {"mkdir", "get", "create", "next", "write", "flush"}
    /\ stage' = "DownloadFailed"
    /\ AbortDownload("download", i)

\* SIGINT is delivered while the ctrl_c future exists
CtrlC ==
    /\ stage \in {"Downloading", "Installing"}
    /\ ~sigint
    /\ sigint' = TRUE
    /\ UNCHANGED <<stage, result, force, verCheck>>
    /\ UNCHANGED dlvars
    /\ UNCHANGED instvars
    /\ UNCHANGED pvars
    /\ UNCHANGED lvars

InterruptApplyingStaged ==
    /\ stage = "Downloading"
    /\ sigint
    /\ stage' = "Interrupted"
    /\ result' = Err("interrupted", 0)
    /\ tpc' = DropTasks(tpc)
    /\ chunk' = [j \in Tasks |-> 0]
    /\ staged' = [j \in Tasks |-> NoFile]
    /\ tempDir' = "removed"
    /\ stagingDirs' = {}
    /\ dest' = [j \in Tasks |-> IF tpc[j] = "done"
                                THEN [state |-> "new", size |-> staged[j].size]
                                ELSE dest[j]]
    /\ log' = IF \E j \in Tasks : tpc[j] = "done"
              THEN Logged(CHOOSE j \in Tasks : tpc[j] = "done", "copy")
              ELSE log
    /\ UNCHANGED <<progress, force, verCheck, sigint, idx, ipc, replaceSelf, curBin>>
    /\ UNCHANGED pvars
    /\ UNCHANGED lvars

\* lines 323-325: select! polls ctrl_c_handling, finds it ready and bails
Interrupt ==
    /\ stage = "Downloading"
    /\ sigint
    /\ stage' = "Interrupted"
    /\ AbortDownload("interrupted", 0)


(***************************************************************************)
(* The install loop (lines 332-409), run once `downloads` is Ok.  One item *)
(* is installed at a time; ipc is the step the current item is at.  The    *)
(* log records every step that changed the installation or ran a process.  *)
(***************************************************************************)
\* moon_dir::home()
HomeDir == <<"/", "home", ".moon">>

\* moon_dir::home().join(download_item)
DstPath(item) == HomeDir \o item

\* values std::env::current_exe() can return
CurrentExes ==
    { HomeDir \o <<"bin", "moon">>,
      HomeDir \o <<"bin", "..", "bin", "moon">>,
      <<"/", "usr", "bin", "moon">> }

\* lines 384-386
ReplaceSelfAlways(dst, cur_bin) == TRUE

ReplaceSelf(dst, cur_bin) == normalize_path(dst) = normalize_path(cur_bin)

\* the async block and upgrade return: temp_dir is dropped
LeaveDoUpgrade ==
    /\ tempDir' = DropTempDir(tempDir)
    /\ staged' = [j \in Tasks |-> NoFile]
    /\ stagingDirs' = {}
    /\ UNCHANGED <<tpc, chunk, progress, force, verCheck, sigint>>
    /\ UNCHANGED pvars
    /\ UNCHANGED lvars

NextItemSkipping ==
    /\ idx' = IF idx + 1 >= N THEN idx ELSE idx + 2
    /\ ipc' = IF idx + 1 >= N THEN "finish" ELSE "begin"
    /\ UNCHANGED <<stage, result, force, verCheck, sigint>>
    /\ UNCHANGED dlvars
    /\ UNCHANGED pvars
    /\ UNCHANGED lvars

\* the item is installed: the loop goes to the next item, or is over
NextItem ==
    /\ idx' = IF idx = N THEN idx ELSE idx + 1
    /\ ipc' = IF idx = N THEN "finish" ELSE "begin"
    /\ UNCHANGED <<stage, result, force, verCheck, sigint>>
    /\ UNCHANGED dlvars
    /\ UNCHANGED pvars
    /\ UNCHANGED lvars

\* lines 332-339, 376: the loop takes the next item and branches on its extension
InstallBegin ==
    /\ stage = "Installing"
    /\ ipc = "begin"
    /\ ipc' = IF Extension(Items[idx]) = Some("zip") THEN "clean" ELSE "mkdir"
    /\ log' = Logged(idx, "begin")
    /\ UNCHANGED <<stage, result, force, verCheck, sigint, idx, replaceSelf, curBin, dest>>
    /\ UNCHANGED dlvars
    /\ UNCHANGED pvars
    /\ UNCHANGED lvars

\* lines 377-381: the parent of the destination exists or is created
InstallMkdir ==
    /\ stage = "Installing"
    /\ ipc = "mkdir"
    /\ ipc' = "locate"
    /\ UNCHANGED <<stage, result, force, verCheck, sigint, idx, replaceSelf, curBin, dest, log>>
    /\ UNCHANGED dlvars
    /\ UNCHANGED pvars
    /\ UNCHANGED lvars

\* lines 383-387: current_exe() and the comparison of the normalized paths
InstallLocate ==
    /\ stage = "Installing"
    /\ ipc = "locate"
    /\ \E cur_bin \in CurrentExes :
          /\ curBin' = cur_bin
          /\ replaceSelf' = ReplaceSelf(DstPath(Items[idx]), cur_bin)
          /\ ipc' = IF replaceSelf' THEN "self_replace" ELSE "remove_dst"
    /\ UNCHANGED <<stage, result, force, verCheck, sigint, idx, dest, log>>
    /\ UNCHANGED dlvars
    /\ UNCHANGED pvars
    /\ UNCHANGED lvars

\* line 388: self_replace(&filepath) puts the staged file in place of the
\* running executable
InstallSelfReplace ==
    /\ stage = "Installing"
    /\ ipc = "self_replace"
    /\ dest' = [dest EXCEPT ![idx] = [state |-> "new", size |-> staged[idx].size]]
    /\ log' = Logged(idx, "self_replace")
    /\ ipc' = "remove_staged"
    /\ UNCHANGED <<stage, result, force, verCheck, sigint, idx, replaceSelf, curBin>>
    /\ UNCHANGED dlvars
    /\ UNCHANGED pvars
    /\ UNCHANGED lvars

\* line 389: the staged file is removed
InstallRemoveStaged ==
    /\ stage = "Installing"
    /\ ipc = "remove_staged"
    /\ staged' = [staged EXCEPT ![idx] = NoFile]
    /\ ipc' = "chmod"
    /\ UNCHANGED <<stage, result, force, verCheck, sigint, idx, replaceSelf, curBin, dest, log>>
    /\ UNCHANGED <<tpc, chunk, progress, tempDir, stagingDirs>>
    /\ UNCHANGED pvars
    /\ UNCHANGED lvars

\* lines 391-393: an existing destination file is removed
InstallRemoveDst ==
    /\ stage = "Installing"
    /\ ipc = "remove_dst"
    /\ \/ /\ dest' = [dest EXCEPT ![idx] = [state |-> "absent", size |-> 0]]   \* dst.exists()
          /\ log' = Logged(idx, "remove_dst")
       \/ UNCHANGED <<dest, log>>                                            \* !dst.exists()
    /\ ipc' = "copy"
    /\ UNCHANGED <<stage, result, force, verCheck, sigint, idx, replaceSelf, curBin>>
    /\ UNCHANGED dlvars
    /\ UNCHANGED pvars
    /\ UNCHANGED lvars

\* lines 394-396: the staged file is copied to the destination
InstallCopy ==
    /\ stage = "Installing"
    /\ ipc = "copy"
    /\ dest' = [dest EXCEPT ![idx] = [state |-> "new", size |-> staged[idx].size]]
    /\ log' = Logged(idx, "copy")
    /\ ipc' = "chmod"
    /\ UNCHANGED <<stage, result, force, verCheck, sigint, idx, replaceSelf, curBin>>
    /\ UNCHANGED dlvars
    /\ UNCHANGED pvars
    /\ UNCHANGED lvars

\* lines 399-406: the destination is given mode 0o744; the item is installed
InstallChmod ==
    /\ stage = "Installing"
    /\ ipc = "chmod"
    /\ log' = Logged2(idx, "chmod", "end")
    /\ NextItem
    /\ UNCHANGED <<replaceSelf, curBin, dest>>

\* lines 337-339: the old lib/core tree is deleted
InstallClean ==
    /\ stage = "Installing"
    /\ ipc = "clean"
    /\ dest' = [dest EXCEPT ![idx] = [state |-> "absent", size |-> 0]]
    /\ log' = Logged(idx, "clean")
    /\ ipc' = "unzip"
    /\ UNCHANGED <<stage, result, force, verCheck, sigint, idx, replaceSelf, curBin>>
    /\ UNCHANGED dlvars
    /\ UNCHANGED pvars
    /\ UNCHANGED lvars

\* lines 342-358: the staged archive is read and every entry is extracted
InstallUnzip ==
    /\ stage = "Installing"
    /\ ipc = "unzip"
    /\ dest' = [dest EXCEPT ![idx] = [state |-> "new", size |-> staged[idx].size]]
    /\ log' = Logged(idx, "extract")
    /\ ipc' = "version"
    /\ UNCHANGED <<stage, result, force, verCheck, sigint, idx, replaceSelf, curBin>>
    /\ UNCHANGED dlvars
    /\ UNCHANGED pvars
    /\ UNCHANGED lvars

\* lines 361-364: `moon version` ran
InstallVersion ==
    /\ stage = "Installing"
    /\ ipc = "version"
    /\ log' = Logged(idx, "version")
    /\ ipc' = "bundle"
    /\ UNCHANGED <<stage, result, force, verCheck, sigint, idx, replaceSelf, curBin, dest>>
    /\ UNCHANGED dlvars
    /\ UNCHANGED pvars
    /\ UNCHANGED lvars

\* line 366: what Command::output() gives for `moon bundle --all`: an error (the
\* subprocess could not be launched), or an exit status with or without a code
BundleOutcomes == {"launch_failed", "exit_0", "exit_1", "no_code"}

BundleOkAnyCode(out) == out # "launch_failed"

\* lines 366, 368-372: `?` on the launch, then the match on out.status.code()
BundleOk(out) == out = "exit_0"

\* lines 366-373: `moon bundle --all` is run and its exit status is matched; with
\* Some(0) the archive item is installed, otherwise do_upgrade returns the error
InstallBundle ==
    /\ stage = "Installing"
    /\ ipc = "bundle"
    /\ \E out \in BundleOutcomes :
         LET ran == IF out = "launch_failed" THEN log
                    ELSE Append(Logged(idx, "rebuild"), [item |-> idx, op |-> out])
         IN  IF BundleOk(out)
             THEN /\ log' = Append(ran, [item |-> idx, op |-> "end"])
                  /\ NextItem
                  /\ UNCHANGED <<replaceSelf, curBin, dest>>
             ELSE /\ log' = ran
                  /\ stage' = "InstallFailed"
                  /\ result' = Err("install", idx)
                  /\ LeaveDoUpgrade
                  /\ UNCHANGED <<idx, ipc, replaceSelf, curBin, dest>>

\* lines 412-415 and 214-215: the async block, do_upgrade and upgrade return Ok(0)
ReturnOk ==
    /\ stage' = "Done"
    /\ result' = Ok0
    /\ idx' = 0
    /\ ipc' = "none"
    /\ LeaveDoUpgrade
    /\ UNCHANGED <<replaceSelf, curBin, dest, log>>

\* lines 411-415: after the loop an empty line is written to the terminal, under
\* its lock, and the invocation returns
InstallFinish ==
    /\ stage = "Installing"
    /\ ipc = "finish"
    /\ ReturnOk

InstallFailSwallowed ==
    /\ stage = "Installing"
    /\ ipc \in {"mkdir", "locate", "self_replace", "remove_staged", "remove_dst",
                "copy", "chmod", "unzip", "version"}
    /\ stage' = "InstallFailed"
    /\ result' = Ok0
    /\ LeaveDoUpgrade
    /\ UNCHANGED <<idx, ipc, replaceSelf, curBin, dest, log>>

InstallFailRetry ==
    /\ stage = "Installing"
    /\ ipc \in {"mkdir", "locate", "self_replace", "remove_staged", "remove_dst",
                "copy", "chmod", "unzip", "version"}
    /\ stage' = "Downloading"
    /\ tpc' = [j \in Tasks |-> "init"]
    /\ idx' = 0
    /\ ipc' = "none"
    /\ UNCHANGED <<result, force, verCheck, sigint, chunk, progress, staged, tempDir,
                   stagingDirs, replaceSelf, curBin, dest, log>>
    /\ UNCHANGED pvars
    /\ UNCHANGED lvars

InstallFailRollback ==
    /\ stage = "Installing"
    /\ ipc \in {"mkdir", "locate", "self_replace", "remove_staged", "remove_dst",
                "copy", "chmod", "unzip", "version"}
    /\ stage' = "InstallFailed"
    /\ result' = Err("install", idx)
    /\ dest' = [j \in Tasks |-> OrigDest]
    /\ LeaveDoUpgrade
    /\ UNCHANGED <<idx, ipc, replaceSelf, curBin, log>>

\* a step of the current item returned an error (`?` or bail!): do_upgrade and
\* upgrade return it.  A failed copy or extraction may leave a partial result.
InstallFail ==
    /\ stage = "Installing"
    /\ ipc \in {"mkdir", "locate", "self_replace", "remove_staged", "remove_dst",
                "copy", "chmod", "unzip", "version"}
    /\ stage' = "InstallFailed"
    /\ result' = Err("install", idx)
    /\ \/ UNCHANGED dest
       \/ /\ ipc \in {"copy", "unzip"}
          /\ dest' = [dest EXCEPT ![idx] = [state |-> "partial", size |-> 0]]
    /\ LeaveDoUpgrade
    /\ UNCHANGED <<idx, ipc, replaceSelf, curBin, log>>

Next ==
    \/ UpgradeStart
    \/ CheckVersion
    \/ Confirm
    \/ \E i \in Tasks : TaskBegin(i)
    \/ \E i \in Tasks : TaskMkdir(i)
    \/ \E i \in Tasks : TaskGet(i)
    \/ \E i \in Tasks : TaskCreate(i)
    \/ \E i \in Tasks : TaskNextChunk(i)
    \/ \E i \in Tasks : TaskNextEnd(i)
    \/ \E i \in Tasks : TaskWrite(i)
    \/ \E i \in Tasks : TaskFlush(i)
    \/ \E i \in Tasks : TaskFail(i)
    \/ CtrlC
    \/ Interrupt
    \/ InstallBegin
    \/ InstallMkdir
    \/ InstallLocate
    \/ InstallSelfReplace
    \/ InstallRemoveStaged
    \/ InstallRemoveDst
    \/ InstallCopy
    \/ InstallChmod
    \/ InstallClean
    \/ InstallUnzip
    \/ InstallVersion
    \/ InstallBundle
    \/ InstallFinish
    \/ InstallFail

Spec == Init /\ [][Next]_vars

(***************************************************************************)
(* Scheduling.  upgrade runs on until it returns: the network answers or   *)
(* fails, the user answers the prompt, each subprocess of the install loop *)
(* ends.  block_on keeps polling `downloads`, which polls every task that  *)
(* was woken, and select! takes the ctrl_c arm once the signal is there.   *)
(* Signals and failures themselves are up to the environment.              *)
(***************************************************************************)
\* lines 169-264: upgrade up to the start of the downloads
SetupStep == UpgradeStart \/ CheckVersion \/ Confirm

\* lines 269-310: task i goes from one await to the next, or returns
TaskStep(i) ==
    \/ TaskBegin(i)
    \/ TaskMkdir(i)
    \/ TaskGet(i)
    \/ TaskCreate(i)
    \/ TaskNextChunk(i)
    \/ TaskNextEnd(i)
    \/ TaskWrite(i)
    \/ TaskFlush(i)
    \/ TaskFail(i)

\* lines 332-415: the install loop goes to its next step, or returns
InstallStep ==
    \/ InstallBegin
    \/ InstallMkdir
    \/ InstallLocate
    \/ InstallSelfReplace
    \/ InstallRemoveStaged
    \/ InstallRemoveDst
    \/ InstallCopy
    \/ InstallChmod
    \/ InstallClean
    \/ InstallUnzip
    \/ InstallVersion
    \/ InstallBundle
    \/ InstallFinish
    \/ InstallFail

Fairness ==
    /\ WF_vars(SetupStep)
    /\ \A i \in Tasks : WF_vars(TaskStep(i))
    /\ WF_vars(Interrupt)
    /\ WF_vars(InstallStep)

SpecLive == Spec /\ Fairness

(***************************************************************************)
(* The two mutexes.  Every future of the async block is polled on the      *)
(* thread that called block_on (nothing is spawned), so between two awaits *)
(* one task runs alone.  Here the code between two awaits that takes a     *)
(* lock (lines 282-291, 300-306 with display_progress 418-438, and 411) is *)
(* split at each lock and unlock; lockpc says who is running and where.    *)
(* All other actions are as above and happen while nobody is running.      *)
(***************************************************************************)
\* the async block itself, after the downloads
MainFlow == N + 1

ThreadFree == lockpc = NotRunning

RunningAt(i, at) == lockpc = [who |-> i, at |-> at]

otherThanLocks == <<stage, result, force, verCheck, sigint, tempDir, stagingDirs>>

\* lines 278-282: File::create returned; the task goes on to progress_map.lock()
TaskCreated(i) ==
    /\ ThreadFree
    /\ stage = "Downloading"
    /\ tpc[i] = "create"
    /\ staged' = [staged EXCEPT ![i] = [exists |-> TRUE, size |-> 0]]
    /\ lockpc' = [who |-> i, at |-> "insert_lock"]
    /\ UNCHANGED <<tpc, chunk, progress, mapLock, termLock>>
    /\ UNCHANGED otherThanLocks
    /\ UNCHANGED instvars
    /\ UNCHANGED pvars

\* lines 283, 301, 422: progress_map.lock() returns once the mutex is free
LockMap(i) ==
    /\ lockpc.who = i
    /\ lockpc.at \in {"insert_lock", "advance_lock", "display_lock"}
    /\ mapLock = 0
    /\ mapLock' = i
    /\ lockpc' = [who |-> i,
                  at |-> CASE lockpc.at = "insert_lock" -> "insert"
                           [] lockpc.at = "advance_lock" -> "advance"
                           [] lockpc.at = "display_lock" -> "display"]
    /\ UNCHANGED <<tpc, chunk, progress, staged, termLock>>
    /\ UNCHANGED otherThanLocks
    /\ UNCHANGED instvars
    /\ UNCHANGED pvars

TaskInsertedKeepingLock(i) ==
    /\ RunningAt(i, "insert")
    /\ progress' = MapInsert(progress, Items[i],
                             [total_size |-> chunk[i], downloaded |-> 0])
    /\ chunk' = [chunk EXCEPT ![i] = 0]
    /\ tpc' = [tpc EXCEPT ![i] = "next"]
    /\ lockpc' = NotRunning
    /\ UNCHANGED <<staged, mapLock, termLock>>
    /\ UNCHANGED otherThanLocks
    /\ UNCHANGED instvars
    /\ UNCHANGED pvars

\* lines 284-295: the entry is inserted, the guard dropped at the end of the
\* block, and the task suspends at stream.next().await
TaskInserted(i) ==
    /\ RunningAt(i, "insert")
    /\ progress' = MapInsert(progress, Items[i],
                             [total_size |-> chunk[i], downloaded |-> 0])
    /\ mapLock' = 0
    /\ chunk' = [chunk EXCEPT ![i] = 0]
    /\ tpc' = [tpc EXCEPT ![i] = "next"]
    /\ lockpc' = NotRunning
    /\ UNCHANGED <<staged, termLock>>
    /\ UNCHANGED otherThanLocks
    /\ UNCHANGED instvars
    /\ UNCHANGED pvars

\* lines 296-300: write_all returned; the task goes on to progress_map.lock()
TaskWritten(i) ==
    /\ ThreadFree
    /\ stage = "Downloading"
    /\ tpc[i] = "write"
    /\ staged' = [staged EXCEPT ![i].size = @ + chunk[i]]
    /\ lockpc' = [who |-> i, at |-> "advance_lock"]
    /\ UNCHANGED <<tpc, chunk, progress, mapLock, termLock>>
    /\ UNCHANGED otherThanLocks
    /\ UNCHANGED instvars
    /\ UNCHANGED pvars

\* lines 302-306: the entry is advanced, the guard dropped at the end of the
\* block, and display_progress is called
TaskAdvanced(i) ==
    /\ RunningAt(i, "advance")
    /\ progress' = Advance(progress, Items[i], chunk[i])
    /\ mapLock' = 0
    /\ lockpc' = [who |-> i, at |-> "display_lock"]
    /\ UNCHANGED <<tpc, chunk, staged, termLock>>
    /\ UNCHANGED otherThanLocks
    /\ UNCHANGED instvars
    /\ UNCHANGED pvars

\* lines 424-434 of display_progress: with the map locked the sums are taken,
\* and term.lock() returns once that mutex is free
DisplayLockTerm(i) ==
    /\ RunningAt(i, "display")
    /\ termLock = 0
    /\ termLock' = i
    /\ lockpc' = [who |-> i, at |-> "display_term"]
    /\ UNCHANGED <<tpc, chunk, progress, staged, mapLock>>
    /\ UNCHANGED otherThanLocks
    /\ UNCHANGED instvars
    /\ UNCHANGED pvars

\* lines 435-437: the line is written and the terminal guard dropped
DisplayUnlockTerm(i) ==
    /\ RunningAt(i, "display_term")
    /\ termLock' = 0
    /\ lockpc' = [who |-> i, at |-> "display_end"]
    /\ UNCHANGED <<tpc, chunk, progress, staged, mapLock>>
    /\ UNCHANGED otherThanLocks
    /\ UNCHANGED instvars
    /\ UNCHANGED pvars

\* line 438 and 294: display_progress returns, which drops the map guard, and
\* the task suspends at stream.next().await
DisplayReturn(i) ==
    /\ RunningAt(i, "display_end")
    /\ mapLock' = 0
    /\ chunk' = [chunk EXCEPT ![i] = 0]
    /\ tpc' = [tpc EXCEPT ![i] = "next"]
    /\ lockpc' = NotRunning
    /\ UNCHANGED <<progress, staged, termLock>>
    /\ UNCHANGED otherThanLocks
    /\ UNCHANGED instvars
    /\ UNCHANGED pvars

\* line 411: after the install loop, term.lock() returns once the mutex is free
FinishLockTerm ==
    /\ ThreadFree
    /\ stage = "Installing"
    /\ ipc = "finish"
    /\ termLock = 0
    /\ termLock' = MainFlow
    /\ lockpc' = [who |-> MainFlow, at |-> "finish_term"]
    /\ UNCHANGED mapLock
    /\ UNCHANGED <<stage, result, force, verCheck, sigint>>
    /\ UNCHANGED dlvars
    /\ UNCHANGED instvars
    /\ UNCHANGED pvars

\* line 411: the empty line is written and the temporary guard dropped
FinishUnlockTerm ==
    /\ RunningAt(MainFlow, "finish_term")
    /\ termLock' = 0
    /\ lockpc' = NotRunning
    /\ ipc' = "return"
    /\ UNCHANGED mapLock
    /\ UNCHANGED <<stage, result, force, verCheck, sigint>>
    /\ UNCHANGED dlvars
    /\ UNCHANGED <<idx, replaceSelf, curBin, dest, log>>
    /\ UNCHANGED pvars

\* lines 412-415, 214-215
FinishReturn ==
    /\ ThreadFree
    /\ stage = "Installing"
    /\ ipc = "return"
    /\ ReturnOk

\* a step of whoever is running
LockStep ==
    \/ \E i \in Tasks : LockMap(i)
    \/ \E i \in Tasks : TaskInserted(i)
    \/ \E i \in Tasks : TaskAdvanced(i)
    \/ \E i \in Tasks : DisplayLockTerm(i)
    \/ \E i \in Tasks : DisplayUnlockTerm(i)
    \/ \E i \in Tasks : DisplayReturn(i)
    \/ FinishUnlockTerm

NextLocks ==
    \/ ThreadFree /\ UpgradeStart
    \/ ThreadFree /\ CheckVersion
    \/ ThreadFree /\ Confirm
    \/ \E i \in Tasks : ThreadFree /\ TaskBegin(i)
    \/ \E i \in Tasks : ThreadFree /\ TaskMkdir(i)
    \/ \E i \in Tasks : ThreadFree /\ TaskGet(i)
    \/ \E i \in Tasks : TaskCreated(i)
    \/ \E i \in Tasks : ThreadFree /\ TaskNextChunk(i)
    \/ \E i \in Tasks : ThreadFree /\ TaskNextEnd(i)
    \/ \E i \in Tasks : TaskWritten(i)
    \/ \E i \in Tasks : ThreadFree /\ TaskFlush(i)
    \/ \E i \in Tasks : ThreadFree /\ TaskFail(i)
    \/ CtrlC
    \/ ThreadFree /\ Interrupt
    \/ ThreadFree /\ InstallBegin
    \/ ThreadFree /\ InstallMkdir
    \/ ThreadFree /\ InstallLocate
    \/ ThreadFree /\ InstallSelfReplace
    \/ ThreadFree /\ InstallRemoveStaged
    \/ ThreadFree /\ InstallRemoveDst
    \/ ThreadFree /\ InstallCopy
    \/ ThreadFree /\ InstallChmod
    \/ ThreadFree /\ InstallClean
    \/ ThreadFree /\ InstallUnzip
    \/ ThreadFree /\ InstallVersion
    \/ ThreadFree /\ InstallBundle
    \/ ThreadFree /\ InstallFail
    \/ FinishLockTerm
    \/ FinishReturn
    \/ LockStep

\* the running code goes on until its next await
SpecLocks == Init /\ [][NextLocks]_vars /\ WF_vars(LockStep)


(***************************************************************************)
(* Harness for extract_date: Init draws a version string, the action       *)
(* applies the function.  A version string is                              *)
(*   head . (pre run1 mid run2) tail                                       *)
(* so that the third dot-delimited segment ranges over non-digit prefixes, *)
(* digit runs of every length up to MaxRun, and a second digit run.        *)
(***************************************************************************)
MaxRun == 9

DigitRun(n, d) == [i \in 1..n |-> DigitChars[((d + i - 1) % 10) + 1]]

VersionHeads ==
    { <<>>,
      <<"0", ".">>,
      <<"0", ".", "1", ".">>,
      <<"v", "0", ".", "1", ".">>,
      <<"0", ".", "1", ".", "5", ".">> }

SegPrefixes == { <<>>, <<"v">>, <<"a", "b">> }

SegMiddles == { <<>>, <<"b">>, <<"+">> }

VersionTails == { <<>>, <<".", "7">>, <<" ", "(", "a">> }

VersionInputs ==
    { head \o pre \o DigitRun(n1, d) \o mid \o DigitRun(n2, 1) \o tail :
        head \in VersionHeads, pre \in SegPrefixes, n1 \in 0..MaxRun, d \in {0, 2},
        mid \in SegMiddles, n2 \in {0, DateLen}, tail \in VersionTails }

InitExtractDate ==
    /\ call \in { [fn |-> "extract_date", arg |-> s] : s \in VersionInputs }
    /\ ret = None
    /\ done = FALSE
    /\ MainInit(FALSE)

ExtractDateCall ==
    /\ call.fn = "extract_date"
    /\ ~done
    /\ ret' = extract_date(call.arg)
    /\ done' = TRUE
    /\ UNCHANGED call
    /\ UNCHANGED mvars

NextExtractDate == ExtractDateCall

SpecExtractDate == InitExtractDate /\ [][NextExtractDate]_vars

(***************************************************************************)
(* Vocabulary of the claims about extract_date, stated from the positions  *)
(* of the dots and digits of the input rather than through the code path.  *)
(***************************************************************************)
DotPositions(s) == { i \in 1..Len(s) : s[i] = "." }

HasThirdSegment(s) == Cardinality(DotPositions(s)) >= 2

\* the text between the second dot and the third dot (or the end)
ThirdSegment(s) ==
    LET dots == DotPositions(s)
        d2 == CHOOSE i \in dots : Cardinality({ j \in dots : j < i }) = 1
        after == { i \in dots : i > d2 }
        stop == IF after = {} THEN Len(s) + 1
                ELSE CHOOSE i \in after : \A j \in after : i <= j
    IN  SubSeq(s, d2 + 1, stop - 1)

AllDigits(s) == \A i \in 1..Len(s) : is_ascii_digit(s[i])

\* position p starts DateLen consecutive digits of seg
DigitsAt(seg, p) ==
    /\ p >= 1
    /\ p + DateLen - 1 <= Len(seg)
    /\ AllDigits(SubSeq(seg, p, p + DateLen - 1))

\* p is where a (maximal) digit run of seg begins
RunStart(seg, p) ==
    /\ p \in 1..Len(seg)
    /\ is_ascii_digit(seg[p])
    /\ (p = 1 \/ ~is_ascii_digit(seg[p - 1]))

\* the digit run that follows the non-digit prefix of seg has >= DateLen digits
LeadingRunPositions(seg) ==
    { p \in 1..Len(seg) : DigitsAt(seg, p) /\ \A j \in 1..(p - 1) : ~is_ascii_digit(seg[j]) }

\* any digit run of seg with >= DateLen digits
LongRunPositions(seg) ==
    { p \in 1..Len(seg) : RunStart(seg, p) /\ DigitsAt(seg, p) }

FirstOf(S) == CHOOSE p \in S : \A q \in S : p <= q

TokenAt(seg, p) == SubSeq(seg, p, p + DateLen - 1)

\* C10 (as amended): once extract_date has returned, the result is the first
\* 8 digits of the third dot-delimited segment's first digit run when that run
\* (the one that follows the segment's non-digit prefix) has at least 8 digits,
\* and None in every other case: fewer than three segments, no digit in the
\* third segment, or a first digit run shorter than 8.
C10_ExtractDateLeadingRun ==
    (call.fn = "extract_date" /\ done) =>
        LET s == call.arg
        IN  IF HasThirdSegment(s) /\ LeadingRunPositions(ThirdSegment(s)) # {}
            THEN ret = Some(TokenAt(ThirdSegment(s),
                                    FirstOf(LeadingRunPositions(ThirdSegment(s)))))
            ELSE ret = None

\* C10 (as claimed): the result is the first 8 digits of the first run of at
\* least 8 consecutive digits found anywhere in the third segment, and None only
\* when the segment holds no such run.
C10_ExtractDateAnyRun ==
    (call.fn = "extract_date" /\ done) =>
        LET s == call.arg
        IN  IF HasThirdSegment(s) /\ LongRunPositions(ThirdSegment(s)) # {}
            THEN ret = Some(TokenAt(ThirdSegment(s),
                                    FirstOf(LongRunPositions(ThirdSegment(s)))))
            ELSE ret = None

\* a date was extracted from behind a non-digit prefix and before a suffix
C10_Witness ==
    /\ call.fn = "extract_date"
    /\ done
    /\ IsSome(ret)
    /\ HasThirdSegment(call.arg)
    /\ ~is_ascii_digit(ThirdSegment(call.arg)[1])
    /\ Len(ThirdSegment(call.arg)) > DateLen + 1

\* number of consecutive digits of seg from position p on
RECURSIVE RunLenAt(_, _)
RunLenAt(seg, p) ==
    IF p > Len(seg) \/ ~is_ascii_digit(seg[p]) THEN 0
    ELSE 1 + RunLenAt(seg, p + 1)

HasDigit(seg) == \E i \in 1..Len(seg) : is_ascii_digit(seg[i])

FirstDigitPos(seg) == FirstOf({ i \in 1..Len(seg) : is_ascii_digit(seg[i]) })

\* length of the digit run found in the third segment: the one at its first digit
FoundRunLen(s) == RunLenAt(ThirdSegment(s), FirstDigitPos(ThirdSegment(s)))

\* C11 (as claimed): when the digit run found in the third segment does not
\* have exactly 8 digits, shorter or longer, extract_date returns None.
C11_ExactlyEightOrNone ==
    (call.fn = "extract_date" /\ done /\ HasThirdSegment(call.arg)
       /\ HasDigit(ThirdSegment(call.arg)) /\ FoundRunLen(call.arg) # DateLen)
        => ret = None

\* C11 (as amended): when the digit run found in the third segment is shorter
\* than 8 digits extract_date returns None; when it is longer than 8 digits
\* extract_date returns its first 8 digits.
C11_ShortFailsLongTruncates ==
    (call.fn = "extract_date" /\ done /\ HasThirdSegment(call.arg)
       /\ HasDigit(ThirdSegment(call.arg))) =>
        LET seg == ThirdSegment(call.arg)
            n == FoundRunLen(call.arg)
        IN  /\ n < DateLen => ret = None
            /\ n > DateLen => ret = Some(TokenAt(seg, FirstDigitPos(seg)))

\* a run of more than 8 digits was truncated to a date
C11_Witness ==
    /\ call.fn = "extract_date"
    /\ done
    /\ HasThirdSegment(call.arg)
    /\ HasDigit(ThirdSegment(call.arg))
    /\ FoundRunLen(call.arg) > DateLen
    /\ IsSome(ret)

(***************************************************************************)
(* Harness for should_upgrade: Init draws the local versions and the       *)
(* remote item list, the action applies the function.                      *)
(***************************************************************************)
MaxRemoteItems == 2

LocalVersions ==
    { PlainVersion(20240101), TaggedVersion(20240102), NoDateVersion }

RemoteVersions ==
    { PlainVersion(20240102), TaggedVersion(20240101), NoDateVersion }

ComponentNames == { "moon", "moonrun", "moonc", "moonfmt" }

RemoteItem == [name : ComponentNames, version : RemoteVersions]

RemoteLists ==
    UNION { [1..n -> RemoteItem] : n \in 0..MaxRemoteItems }

LocalInstalls ==
    [moon : LocalVersions,
     moonrun : { None } \cup { Some(v) : v \in LocalVersions },
     moonc : { None } \cup { Some(v) : v \in LocalVersions }]

InitShouldUpgrade ==
    /\ call \in { [fn |-> "should_upgrade", local |-> l, items |-> r] :
                    l \in LocalInstalls, r \in RemoteLists }
    /\ ret = None
    /\ done = FALSE
    /\ MainInit(FALSE)

ShouldUpgradeCall ==
    /\ call.fn = "should_upgrade"
    /\ ~done
    /\ ret' = should_upgrade(call.local, call.items)
    /\ done' = TRUE
    /\ UNCHANGED call
    /\ UNCHANGED mvars

NextShouldUpgrade == ShouldUpgradeCall

SpecShouldUpgrade == InitShouldUpgrade /\ [][NextShouldUpgrade]_vars

(***************************************************************************)
(* Vocabulary of the claims about should_upgrade: date tokens are read as  *)
(* numbers (chronological order), found from the positions of the digits.  *)
(***************************************************************************)
HasDate(v) == HasThirdSegment(v) /\ LeadingRunPositions(ThirdSegment(v)) # {}

DateToken(v) == TokenAt(ThirdSegment(v), FirstOf(LeadingRunPositions(ThirdSegment(v))))

RECURSIVE NumVal(_)
NumVal(ds) ==
    IF Len(ds) = 0 THEN 0
    ELSE 10 * NumVal(SubSeq(ds, 1, Len(ds) - 1)) + DigitVal(ds[Len(ds)])

NamedComponents == { "moon", "moonrun", "moonc" }

\* the local version of a named component, None when it cannot be obtained
LocalOf(local, name) ==
    IF name = "moon" THEN Some(local.moon)
    ELSE IF name = "moonrun" THEN local.moonrun
    ELSE local.moonc

\* the component has a remote date strictly later than its local date
RemoteIsNewer(local, items, name) ==
    /\ IsSome(LocalOf(local, name))
    /\ HasDate(Unwrap(LocalOf(local, name)))
    /\ \E i \in 1..Len(items) :
          /\ items[i].name = name
          /\ HasDate(items[i].version)
          /\ NumVal(DateToken(items[i].version))
                > NumVal(DateToken(Unwrap(LocalOf(local, name))))

\* a local version is missing, or a local or remote version string has no date
VersionUnobtainable(local, items) ==
    \/ \E name \in NamedComponents :
          \/ ~IsSome(LocalOf(local, name))
          \/ ~HasDate(Unwrap(LocalOf(local, name)))
    \/ \E i \in 1..Len(items) : ~HasDate(items[i].version)

\* `if let Some(false) = should_upgrade(..)` is the only "up to date" decision
UpToDateDecision(r) == r = Some(FALSE)

\* C3: once should_upgrade has returned, the decision is "upgrade" whenever one
\* of moon, moonrun, moonc has a remote date later than its local date, it is
\* "up to date" only when none of them has and every version was obtained, and
\* it is "upgrade" whenever a local version is missing or a version string has
\* no date.
C3_ShouldUpgradeDecision ==
    (call.fn = "should_upgrade" /\ done) =>
        LET newer == \E name \in NamedComponents :
                        RemoteIsNewer(call.local, call.items, name)
            unobtainable == VersionUnobtainable(call.local, call.items)
        IN  /\ newer => ~UpToDateDecision(ret)
            /\ UpToDateDecision(ret) => (~newer /\ ~unobtainable)
            /\ unobtainable => ~UpToDateDecision(ret)
            /\ (~unobtainable) => ret = Some(newer)

\* only moonc is newer, and the function answered "upgrade"
C3_Witness ==
    /\ call.fn = "should_upgrade"
    /\ done
    /\ ret = Some(TRUE)
    /\ RemoteIsNewer(call.local, call.items, "moonc")
    /\ ~RemoteIsNewer(call.local, call.items, "moon")
    /\ ~RemoteIsNewer(call.local, call.items, "moonrun")

(***************************************************************************)
(* Harness for normalize_path: Init draws the path, NormalizePathCall      *)
(* applies the function to its components, NormalizePathAgain passes the   *)
(* result back in as the next path.                                        *)
(***************************************************************************)
MaxPathLen == 5

SegmentNames == {".", "..", "a", "b", "c"}

RECURSIVE SegmentSeqs(_)
SegmentSeqs(n) ==
    IF n = 0 THEN { <<>> }
    ELSE LET shorter == SegmentSeqs(n - 1)
         IN  shorter \cup { Append(s, c) : s \in { t \in shorter : Len(t) = n - 1 },
                                            c \in SegmentNames }

\* relative paths and, headed by the root directory, absolute paths
PathInputs ==
    SegmentSeqs(MaxPathLen) \cup { <<"/">> \o s : s \in SegmentSeqs(MaxPathLen - 1) }

InitNormalizePath ==
    /\ call \in { [fn |-> "normalize_path", arg |-> p] : p \in PathInputs }
    /\ ret = <<>>
    /\ done = FALSE
    /\ MainInit(FALSE)

NormalizePathCall ==
    /\ call.fn = "normalize_path"
    /\ ~done
    /\ ret' = normalize_path(path_components(call.arg))
    /\ done' = TRUE
    /\ UNCHANGED call
    /\ UNCHANGED mvars

NormalizePathAgain ==
    /\ call.fn = "normalize_path"
    /\ done
    /\ call.arg # ret
    /\ call' = [fn |-> "normalize_path", arg |-> ret]
    /\ ret' = <<>>
    /\ done' = FALSE
    /\ UNCHANGED mvars

NextNormalizePath == NormalizePathCall \/ NormalizePathAgain

SpecNormalizePath == InitNormalizePath /\ [][NextNormalizePath]_vars

(***************************************************************************)
(* Vocabulary of the claim about normalize_path: the path is rewritten     *)
(* until no "." or ".." is left.  The leftmost such segment is deleted,    *)
(* and with a ".." the normal segment right before it, if there is one.    *)
(***************************************************************************)
DotSegments(p) == { i \in 1..Len(p) : p[i] \in {".", ".."} }

Without(p, i, j) == SubSeq(p, 1, i - 1) \o SubSeq(p, j + 1, Len(p))

RECURSIVE Rewritten(_)
Rewritten(p) ==
    IF DotSegments(p) = {} THEN p
    ELSE LET i == FirstOf(DotSegments(p))
         IN  IF p[i] = "." THEN Rewritten(Without(p, i, i))
             ELSE IF i = 1 THEN Rewritten(Without(p, i, i))
             ELSE IF p[i - 1] = "/" THEN Rewritten(Without(p, i, i))
             ELSE Rewritten(Without(p, i - 1, i))

\* C12: normalize_path drops every "." and lets every ".." remove the nearest
\* retained normal component before it (the root and the empty path stay), so
\* the result has no "." or "..", /a/b/../c gives /a/c, /a/./b gives /a/b, and
\* a path that is already normalized is returned unchanged.
C12_NormalizePath ==
    (call.fn = "normalize_path" /\ done) =>
        /\ ret = Rewritten(call.arg)
        /\ DotSegments(ret) = {}
        /\ call.arg = <<"/", "a", "b", "..", "c">> => ret = <<"/", "a", "c">>
        /\ call.arg = <<"/", "a", ".", "b">> => ret = <<"/", "a", "b">>
        /\ DotSegments(call.arg) = {} => ret = call.arg

\* /a/b/../c has been normalized to /a/c
C12_Witness ==
    /\ call.fn = "normalize_path"
    /\ done
    /\ call.arg = <<"/", "a", "b", "..", "c">>
    /\ ret = <<"/", "a", "c">>

(***************************************************************************)
(* Claims about upgrade and do_upgrade, checked under Spec.                *)
(***************************************************************************)
NoInstallStep ==
    /\ log = <<>>
    /\ idx = 0
    /\ \A i \in Tasks : dest[i] = OrigDest

\* C1: when the Ctrl+C branch of select! is taken, the invocation has ended
\* with the "interrupted" error and no install step has run for any item,
\* however many download tasks had finished.
C1_InterruptedNoInstall ==
    stage = "Interrupted" =>
        /\ result = Err("interrupted", 0)
        /\ NoInstallStep

\* the interrupt won while one task had finished and another had not
C1_Witness ==
    /\ stage = "Interrupted"
    /\ \E i \in Tasks : tpc[i] = "done"
    /\ \E i \in Tasks : tpc[i] = "dropped"

\* C2: an install step has started only if every download task completed
\* successfully; when a task fails the invocation is in DownloadFailed with the
\* download error and the installation is untouched, also for the items whose
\* download had succeeded.
C2_InstallOnlyAfterAllDownloads ==
    /\ (log # <<>> \/ idx # 0 \/ stage \in {"Installing", "InstallFailed", "Done"})
          => \A i \in Tasks : tpc[i] = "done"
    /\ stage = "DownloadFailed" =>
          /\ result.status = "err"
          /\ result.error = "download"
          /\ result.item \in Tasks
          /\ tpc[result.item] = "dropped"
          /\ NoInstallStep
    /\ (\E i \in Tasks : tpc[i] = "dropped") => stage \in {"DownloadFailed", "Interrupted"}

\* one task failed after another had completed its download
C2_Witness ==
    /\ stage = "DownloadFailed"
    /\ \E i \in Tasks : tpc[i] = "done"

\* C4: with force the version check is never evaluated, UpToDate is never
\* reached and the step out of CheckingVersion goes to ConfirmPending; UpToDate
\* is reached only without force, after version.json was fetched and parsed and
\* should_upgrade returned Some(false).
C4_ForceBypassesCheck ==
    /\ [](force => (stage # "UpToDate" /\ verCheck \in {"unset", "skipped"}))
    /\ [](stage = "UpToDate" => (~force /\ verCheck = "some_false"))
    /\ [][(force /\ stage = "CheckingVersion" /\ stage' # stage)
            => stage' = "ConfirmPending"]_vars

\* the forced invocation is at the confirmation without a version check
C4_Witness ==
    /\ force
    /\ stage = "ConfirmPending"
    /\ verCheck = "skipped"

TerminalStages ==
    {"UpToDate", "Declined", "Interrupted", "DownloadFailed", "InstallFailed", "Done",
     "Failed"}

\* C5: upgrade returns Ok(0) exactly when every item was installed, when the
\* user declined (then nothing was downloaded or installed) or when the
\* toolchain was up to date; every failure returns an error.
C5_ExitStatus ==
    /\ result.status = "ok" <=> stage \in {"Done", "Declined", "UpToDate"}
    /\ result.status = "err" <=>
          stage \in {"Interrupted", "DownloadFailed", "InstallFailed", "Failed"}
    /\ stage = "Done" => \A i \in Tasks : dest[i].state = "new"
    /\ stage \in {"Declined", "UpToDate"} =>
          /\ tempDir = "none"
          /\ progress = EmptyMap
          /\ \A i \in Tasks : tpc[i] = "init" /\ staged[i] = NoFile
          /\ NoInstallStep
    /\ stage = "Interrupted" => result.error = "interrupted"
    /\ stage = "DownloadFailed" => result.error = "download"
    /\ stage = "InstallFailed" => result.error = "install"

\* the user declined and upgrade returned Ok(0)
C5_Witness ==
    /\ stage = "Declined"
    /\ result = Ok0

\* the transitions the state machine of the specification names
ClaimedTransitions ==
    { <<"Idle", "CheckingVersion">>,
      <<"CheckingVersion", "UpToDate">>, <<"CheckingVersion", "ConfirmPending">>,
      <<"ConfirmPending", "Downloading">>,
      <<"Downloading", "Interrupted">>, <<"Downloading", "DownloadFailed">>,
      <<"Downloading", "Installing">>,
      <<"Installing", "InstallFailed">>, <<"Installing", "Done">> }

\* ... and the ones the code has besides: the declined confirmation, and the
\* errors returned before the download starts
CodeTransitions ==
    ClaimedTransitions \cup
    { <<"ConfirmPending", "Declined">>, <<"Idle", "Failed">>, <<"ConfirmPending", "Failed">> }

\* C6 (as claimed): every change of stage is one of the transitions
\* Idle -> CheckingVersion -> (UpToDate | ConfirmPending) -> Downloading ->
\* (Interrupted | DownloadFailed | Installing) -> (InstallFailed | Done).
\* (Read in the claim's favour: an error returned before the download starts,
\* which the claimed state machine has no stage for, is not held against it.)
C6_ClaimedTransitionsOnly ==
    [][(stage' # stage /\ stage' # "Failed")
          => <<stage, stage'>> \in ClaimedTransitions]_vars

\* C6 (as amended): every change of stage is one of the claimed transitions or
\* ConfirmPending -> Declined, Idle -> Failed, ConfirmPending -> Failed; no step
\* is taken in a terminal stage (UpToDate, Declined, Interrupted, DownloadFailed,
\* InstallFailed, Done, Failed), and as the transitions form no cycle no stage
\* is entered twice.
C6_StageTransitions ==
    /\ [][stage' # stage => <<stage, stage'>> \in CodeTransitions]_vars
    /\ [][stage \notin TerminalStages]_vars

\* an invocation went through every stage up to Done
C6_Witness ==
    /\ stage = "Done"
    /\ \A i \in Tasks : tpc[i] = "done" /\ dest[i].state = "new"

RECURSIVE StagedBytes(_)
StagedBytes(S) ==
    IF S = {} THEN 0
    ELSE LET i == CHOOSE x \in S : TRUE
         IN  staged[i].size + StagedBytes(S \ {i})

\* C7: in every interleaving, the downloaded counter of an entry equals the
\* number of bytes its task has written to its staging file, and once all
\* tasks have completed the sum display_progress computes equals the bytes
\* received over all items.
C7_NoLostProgress ==
    /\ \A i \in Tasks :
          staged[i].exists =>
             /\ Items[i] \in DOMAIN progress
             /\ progress[Items[i]].downloaded = staged[i].size
    /\ ((\A i \in Tasks : tpc[i] = "done" /\ staged[i].exists)
          => ProgressCur(progress) = StagedBytes(Tasks))

\* all tasks completed, every one having received MaxBytes in some chunking
C7_Witness ==
    /\ stage = "Installing"
    /\ \A i \in Tasks : staged[i].exists /\ staged[i].size = MaxBytes
    /\ ProgressCur(progress) = N * MaxBytes

\* C8: the log of install steps goes through the items in manifest order: the
\* first step is the begin of item 1, and a step of another item than the one
\* before is the begin of the next item, right after the end of the previous.
C8_SequentialInstall ==
    /\ \A p \in 1..Len(log) :
          IF p = 1
          THEN log[p] = [item |-> 1, op |-> "begin"]
          ELSE \/ log[p].item = log[p - 1].item /\ log[p].op # "begin"
                                               /\ log[p - 1].op # "end"
               \/ /\ log[p].item = log[p - 1].item + 1
                  /\ log[p].op = "begin"
                  /\ log[p - 1].op = "end"
    /\ (stage = "Installing" /\ log # <<>>) => log[Len(log)].item \in {idx, idx - 1}
    /\ (stage = "Installing" /\ ipc # "begin") => log[Len(log)].item = idx

\* the second item is being installed
C8_Witness ==
    /\ stage = "Installing"
    /\ idx = 2
    /\ ipc \in {"copy", "self_replace"}

\* C9: when the install of item k fails, the invocation is in InstallFailed
\* with the error of item k, every item before k is installed and stays so, and
\* no item after k has been touched.
C9_InstallFailureNoRollback ==
    stage = "InstallFailed" =>
        /\ result = Err("install", idx)
        /\ idx \in Tasks
        /\ \A j \in Tasks : j < idx => dest[j].state = "new"
        /\ \A j \in Tasks : j > idx => dest[j] = OrigDest
        /\ \A p \in 1..Len(log) : log[p].item <= idx

\* the install failed at an item that has items before and after it
C9_Witness ==
    /\ stage = "InstallFailed"
    /\ result.item > 1
    /\ result.item < N

\* C13: the staging directory exists while do_upgrade downloads and installs,
\* and in every outcome that follows (Done, DownloadFailed, Interrupted,
\* InstallFailed) it has been removed together with everything staged in it.
C13_StagingDirRemoved ==
    /\ stage \in {"Downloading", "Installing"} => tempDir = "exists"
    /\ stage \in {"Done", "DownloadFailed", "Interrupted", "InstallFailed"} =>
        /\ tempDir = "removed"
        /\ stagingDirs = {}
        /\ \A i \in Tasks : staged[i] = NoFile

\* an install failed after a first item was installed, and the directory is gone
C13_Witness ==
    /\ stage = "InstallFailed"
    /\ tempDir = "removed"
    /\ \E p \in 1..Len(log) : log[p].op = "end"

\* exit statuses of a rebuild that ran and failed
BundleFailures == {"exit_1", "no_code"}

\* C14: the archive item is installed only when `moon bundle --all` has exited
\* with code 0; an exit with another code, an exit without a code, or a
\* subprocess that could not be launched leaves the invocation in InstallFailed
\* with the archive item's error, and Done is not reached after any of them.
C14_RebuildMustExitZero ==
    /\ \A p \in 1..Len(log) :
        /\ (log[p].op = "end" /\ Extension(Items[log[p].item]) = Some("zip")) =>
              (p > 2 /\ log[p - 1] = [item |-> log[p].item, op |-> "exit_0"]
                     /\ log[p - 2] = [item |-> log[p].item, op |-> "rebuild"])
        /\ log[p].op \in BundleFailures =>
              /\ p = Len(log)
              /\ stage = "InstallFailed"
              /\ result = Err("install", log[p].item)
    /\ (ipc = "bundle" /\ stage # "Installing") =>
          (stage = "InstallFailed" /\ result = Err("install", idx))
    /\ stage = "Done" =>
          /\ \A p \in 1..Len(log) : log[p].op \notin BundleFailures
          /\ \A i \in Tasks : Extension(Items[i]) = Some("zip") =>
                \E p \in 1..Len(log) : log[p] = [item |-> i, op |-> "exit_0"]

\* the rebuild ran and exited with a non-zero code
C14_Witness ==
    /\ stage = "InstallFailed"
    /\ log # <<>>
    /\ log[Len(log)].op = "exit_1"

\* the steps of the current item logged so far: what follows its "begin"
LastBegin == FirstOf({ p \in 1..Len(log) :
                         log[p].op = "begin" /\ \A q \in (p + 1)..Len(log) : log[q].op # "begin" })

CurrentOps == [k \in 1..(Len(log) - LastBegin) |-> log[LastBegin + k].op]

\* the destination and the running executable are the same normalized path
SamePath == Rewritten(DstPath(Items[idx])) = Rewritten(curBin)

Installed(i, size) == dest[i] = [state |-> "new", size |-> size]

\* C15: for a file item, when the normalized destination equals the normalized
\* path of the running executable the only steps are a self-replace from the
\* staged file and then the removal of the staged file, never a removal of or a
\* copy over the destination; otherwise an existing destination is removed and
\* the staged file is copied, the staged file staying in place.  Either way the
\* destination then holds the staged content.
C15_FileInstallBranch ==
    (stage = "Installing" /\ idx \in Tasks /\ Extension(Items[idx]) # Some("zip")) =>
        /\ ipc = "self_replace" =>
              (SamePath /\ CurrentOps = <<>> /\ staged[idx] # NoFile)
        /\ ipc = "remove_staged" =>
              /\ SamePath
              /\ CurrentOps = <<"self_replace">>
              /\ staged[idx] # NoFile
              /\ Installed(idx, staged[idx].size)
        /\ ipc = "remove_dst" =>
              (~SamePath /\ CurrentOps = <<>> /\ staged[idx] # NoFile)
        /\ ipc = "copy" =>
              /\ ~SamePath
              /\ CurrentOps \in { <<>>, <<"remove_dst">> }
              /\ staged[idx] # NoFile
        /\ ipc = "chmod" =>
              IF SamePath
              THEN /\ CurrentOps = <<"self_replace">>
                   /\ staged[idx] = NoFile
                   /\ Installed(idx, progress[Items[idx]].downloaded)
              ELSE /\ CurrentOps \in { <<"copy">>, <<"remove_dst", "copy">> }
                   /\ staged[idx] # NoFile
                   /\ Installed(idx, staged[idx].size)

\* the running executable, reported under an unnormalized path, was replaced
\* and its staged file removed
C15_Witness ==
    /\ stage = "Installing"
    /\ ipc = "chmod"
    /\ curBin # DstPath(Items[idx])
    /\ SamePath
    /\ staged[idx] = NoFile

ZeroProgress == [total_size |-> 0, downloaded |-> 0]

\* task i made a step
TaskMoved(i) == tpc'[i] # tpc[i]

\* C16: from the moment do_upgrade has set the progress map up, its keys are
\* exactly the manifest items; the entry of an item is (0, 0) as long as its
\* task has not got to its own insert, so all are (0, 0) before the first step
\* of any task; and every later step keeps the key set, changes at most the
\* entry of the task that made the step, and leaves that entry a pair of numbers.
C16_ProgressMapShape ==
    /\ [](tempDir # "none" =>
            /\ DOMAIN progress = ItemNames
            /\ \A i \in Tasks :
                  /\ progress[Items[i]] \in [total_size : Nat, downloaded : Nat]
                  /\ tpc[i] \in {"init", "mkdir", "get", "create"} =>
                        progress[Items[i]] = ZeroProgress)
    /\ [][tempDir # "none" =>
            /\ DOMAIN progress' = DOMAIN progress
            /\ \A i \in Tasks :
                  progress'[Items[i]] # progress[Items[i]] =>
                      /\ TaskMoved(i)
                      /\ \A j \in Tasks \ {i} :
                            progress'[Items[j]] = progress[Items[j]]]_vars

\* one task has advanced its own entry while another one has not started
C16_Witness ==
    /\ stage = "Downloading"
    /\ \E i, j \in Tasks :
          /\ progress[Items[i]].downloaded > 0
          /\ tpc[j] = "init"
          /\ progress[Items[j]] = ZeroProgress

\* position of an item in a manifest
PositionIn(manifest, item) == CHOOSE i \in 1..Len(manifest) : manifest[i] = item

\* the steps of the archive item that run bin/moon as a subprocess
MoonInvocations == {"version", "rebuild"}

\* C18: bin/moon comes before the archive in the manifest, and whenever the
\* archive step has run bin/moon (for `version` or for `bundle --all`), the
\* install of the item bin/moon was completed earlier in the same invocation and
\* the destination of bin/moon holds the new executable.
C18_RebuildRunsNewMoon ==
    /\ PositionIn(FullItems, <<"bin", "moon">>) < PositionIn(FullItems, <<"core.zip">>)
    /\ \A p \in 1..Len(log) :
          log[p].op \in MoonInvocations =>
              /\ Extension(Items[log[p].item]) = Some("zip")
              /\ \E q \in 1..(p - 1) :
                    log[q] = [item |-> PositionIn(Items, <<"bin", "moon">>), op |-> "end"]
              /\ dest[PositionIn(Items, <<"bin", "moon">>)].state = "new"

\* the rebuild has run, after the running executable was replaced by the new one
C18_Witness ==
    /\ \E p \in 1..Len(log) : log[p].op = "rebuild"
    /\ \E q \in 1..Len(log) : log[q].op = "self_replace"

\* the download batch ended with a failure, or the interrupt won the race
DownloadsAbandoned == stage \in {"DownloadFailed", "Interrupted"}

\* C19: in DownloadFailed and in Interrupted every download task has either
\* finished or been dropped where it was suspended; the step that enters one of
\* these stages advances no progress entry, and from then on no task moves, no
\* staging file is written and no progress entry changes.
C19_NoTaskStepAfterAbandon ==
    /\ [](DownloadsAbandoned =>
            \A i \in Tasks : tpc[i] \in {"done", "dropped"} /\ ~ENABLED TaskWrite(i))
    /\ [][DownloadsAbandoned' => progress' = progress]_vars
    /\ [][DownloadsAbandoned => UNCHANGED <<tpc, chunk, progress, staged>>]_vars

\* the interrupt won while a task was in the middle of its transfer
C19_Witness ==
    /\ stage = "Interrupted"
    /\ \E i \in Tasks : tpc[i] = "dropped" /\ progress[Items[i]].downloaded > 0

\* the terminal states the specification names
ClaimedTerminalStages == {"UpToDate", "Interrupted", "DownloadFailed", "InstallFailed", "Done"}

\* C17 (as claimed): under fair scheduling every invocation eventually reaches
\* UpToDate, Interrupted, DownloadFailed, InstallFailed or Done.  (Read in the
\* claim's favour: an error returned before the download starts, which the
\* claimed state machine has no stage for, is not held against it.)
C17_ReachesClaimedTerminal == <>(stage \in ClaimedTerminalStages \cup {"Failed"})

\* C17 (as amended): under fair scheduling every invocation eventually reaches
\* UpToDate, Declined, Failed, Interrupted, DownloadFailed, InstallFailed or
\* Done; the step on which an error is returned enters one of them, and once in
\* one of them the invocation stays there: nothing is retried.
C17_Terminates ==
    /\ <>(stage \in TerminalStages)
    /\ [][(result'.status = "err" /\ result.status # "err") =>
             (stage \notin TerminalStages /\ stage' \in TerminalStages)]_vars
    /\ [][(stage \in TerminalStages) => UNCHANGED <<stage, result, tpc, idx, ipc>>]_vars
    /\ [][\A i \in Tasks : (tpc[i] # "init" => tpc'[i] # "init")]_vars

\* a task failed in the middle of its transfer and the invocation ended there
C17_Witness ==
    /\ stage = "DownloadFailed"
    /\ result.status = "err"
    /\ \E i \in Tasks : tpc[i] = "dropped" /\ progress[Items[i]].downloaded > 0

\* whoever is running has called lock() on the map, or on the terminal, and the
\* call has not returned yet
WaitsForMap == lockpc.at \in {"insert_lock", "advance_lock", "display_lock"}

WaitsForTerm == lockpc.at = "display"

\* C20 (as claimed): the terminal lock is only ever held together with the
\* progress-map lock, by the same holder.
C20_TermLockOnlyUnderMapLock == termLock # 0 => mapLock = termLock

\* C20 (as amended): no lock is held while every future is suspended; a
\* download task holds the terminal lock only under the map lock, and the main
\* flow holds it alone, after all downloads; nobody asks for the map lock while
\* holding the terminal lock; a lock that is asked for is free, so whoever
\* waits for a lock acquires it.
C20_NoDeadlock ==
    /\ [](ThreadFree => (mapLock = 0 /\ termLock = 0))
    /\ [](termLock \in Tasks => mapLock = termLock)
    /\ [](termLock = MainFlow =>
            (mapLock = 0 /\ stage = "Installing" /\ \A i \in Tasks : tpc[i] = "done"))
    /\ [](WaitsForMap => (termLock = 0 /\ mapLock = 0))
    /\ [](WaitsForTerm => (termLock = 0 /\ mapLock = lockpc.who))
    /\ (WaitsForMap ~> mapLock # 0)
    /\ (WaitsForTerm ~> termLock # 0)

\* a task is about to take the terminal lock under the map lock while another
\* task is in the middle of its transfer
C20_Witness ==
    /\ WaitsForTerm
    /\ mapLock = lockpc.who
    /\ \E j \in Tasks : j # lockpc.who /\ tpc[j] = "write"

=============================================================================
